---- MODULE Spec2Model ----
(***************************************************************************)
(* R-YOLOv4: rotated non-maximum suppression (lib/post_process.py) and     *)
(* target assignment with its loss aggregation (lib/loss.py).              *)
(*                                                                         *)
(* Numbers.  The code computes in floating point; the model computes in    *)
(* exact rational arithmetic.  A box is (x, y, w, h) over the common       *)
(* denominator d, so a confidence-weighted mean is exact.  Confidences and *)
(* thresholds are in tenths.  Angles are in quarter turns (1 = pi/2): for  *)
(* these cv.boxPoints gives an axis-aligned rectangle, with width and      *)
(* height exchanged at an odd quarter turn, and shapely's polygon          *)
(* intersection is the rectangle intersection.                             *)
(***************************************************************************)
EXTENDS Integers, Sequences, FiniteSets, TLC

VARIABLES
    \* ---- post_process ----
    pc,           \* position in post_process
    pred,         \* per image: the rows of the tensors the caller passes
    predictions,  \* per image: the concatenated candidates, line 110
    conf_thres,   \* argument, tenths
    nms_thres,    \* argument, tenths
    batch,        \* index of the image loop, line 118
    image_pred,   \* candidates of the current image after the filter
    detections,   \* sorted, capped candidates with class_conf / class_pred
    labels,       \* class labels still to be processed, ascending
    detect,       \* remaining candidates of the current label
    keep_boxes,   \* detections kept so far for the current image
    merged,       \* for every kept detection: best_bbox as it was taken,
                  \* followed by the rows it suppressed (throwayay)
    output,       \* per image: the returned detections
    \* ---- ComputeLoss ----
    lpc,          \* position in ComputeLoss.__call__ / build_targets
    target,       \* ground truths of the batch: rows (b, label, x, y, w, h, a)
    ignore_thresh,\* hyper-parameter, thousandths
    scale,        \* the detection scale being processed
    gt_i,         \* index i of the loop of line 208
    obj_mask,     \* per scale: the cells (b, anchor, gj, gi) that are 1
    noobj_mask,   \* per scale: the cells that are 1
    ta,           \* current scale: written cell -> encoded angle (else 0)
    tcls,         \* current scale: the (cell, class) entries that are 1
    cellval,      \* current scale: for skew_iou, ciou_loss, class_mask and
                  \* iou_scores, written cell -> the ground truth whose
                  \* value it holds (every other cell holds 0)
    losses,       \* per scale: reg_loss, conf_loss, cls_loss as the terms added
    \* ---- bbox_xywha_ciou ----
    cpc,          \* position in bbox_xywha_ciou
    pred_size,    \* pred_boxes.size(): << rows, columns >>
    target_size,  \* target_boxes.size()
    ciou_out      \* what the call gave: nothing yet, an error, or the size of
                  \* the returned skew_iou / ciou_loss

postVars == << pc, pred, predictions, conf_thres, nms_thres, batch, image_pred,
               detections, labels, detect, keep_boxes, merged, output >>
lossVars == << lpc, target, ignore_thresh, scale, gt_i, obj_mask, noobj_mask,
               ta, tcls, cellval, losses >>
ciouVars == << cpc, pred_size, target_size, ciou_out >>
vars == << postVars, lossVars, ciouVars >>

(***************************************************************************)
(* Bounds of the model.                                                    *)
(***************************************************************************)
\* images per batch
BatchSize == 2
\* candidates per batch, all images together
MaxCands == 5
\* the caps of lines 115-116 (500 and 300 in the source), scaled to MaxCands
max_nms == 4
max_det == 3

\* detection scales (three in the network)
NumScales == 2
\* ground truths per batch
MaxTargets == 2
\* rows of a box batch given to bbox_xywha_ciou
MaxBoxes == 3

Images == 0 .. (BatchSize - 1)
Scales == 1 .. NumScales

(***************************************************************************)
(* Arithmetic helpers.                                                     *)
(***************************************************************************)
Min(a, b) == IF a < b THEN a ELSE b
Max(a, b) == IF a > b THEN a ELSE b
Abs(a) == IF a < 0 THEN -a ELSE a

RECURSIVE Gcd(_, _)
Gcd(a, b) == IF b = 0 THEN Abs(a) ELSE Gcd(b, a % b)

RECURSIVE SumSeq(_)
SumSeq(s) == IF s = << >> THEN 0 ELSE Head(s) + SumSeq(Tail(s))

RECURSIVE ProdSeq(_)
ProdSeq(s) == IF s = << >> THEN 1 ELSE Head(s) * ProdSeq(Tail(s))

\* the rational num/d of a box in lowest terms, d > 0
Reduce(b) ==
    LET g == Gcd(Gcd(Gcd(b.x, b.y), Gcd(b.w, b.h)), b.d)
    IN  [b EXCEPT !.x = b.x \div g, !.y = b.y \div g,
                  !.w = b.w \div g, !.h = b.h \div g, !.d = b.d \div g]

(***************************************************************************)
(* Oriented-box geometry, lib/post_process.py lines 7-69.                  *)
(* Two boxes b1 / b2 with denominators d1 / d2 are compared in units of    *)
(* 1 / (2 * d1 * d2): corners of b are (2x -+ w) * m, m the other's d.     *)
(***************************************************************************)
\* xywh2xyxy, lines 7-13: corners of the box, its angle ignored
xywh2xyxy(b, m) ==
    [x1 |-> (2 * b.x - b.w) * m, y1 |-> (2 * b.y - b.h) * m,
     x2 |-> (2 * b.x + b.w) * m, y2 |-> (2 * b.y + b.h) * m]

\* area of the intersection of two corner rectangles, clamped at 0
InterArea(c1, c2) ==
    LET iw == Max(Min(c1.x2, c2.x2) - Max(c1.x1, c2.x1), 0)
        ih == Max(Min(c1.y2, c2.y2) - Max(c1.y1, c2.y1), 0)
    IN  iw * ih

RectArea(c) == (c.x2 - c.x1) * (c.y2 - c.y1)

\* a ratio num / den is a pair; 0 / 0 counts as 0 (the 1e-15 guard, line 32)
RatioGt(r, p, q) == r[1] * q > p * r[2]

\* lines 19-32 of iou: the IoU of the two boxes with their rotation ignored
aa_iou(b1, b2) ==
    LET c1 == xywh2xyxy(b1, b2.d)
        c2 == xywh2xyxy(b2, b1.d)
        inter == InterArea(c1, c2)
    IN  << inter, RectArea(c1) + RectArea(c2) - inter >>

\* rbox2polygon, lines 44-47: the rotated rectangle, at a quarter-turn angle
rbox2polygon(b, m) ==
    IF b.a % 2 = 0
    THEN xywh2xyxy(b, m)
    ELSE xywh2xyxy([b EXCEPT !.w = b.h, !.h = b.w], m)

\* get_iou, lines 49-54, for one pair of skewiou (lines 56-69)
skewiou(b1, b2) ==
    LET g == rbox2polygon(b1, b2.d)
        p == rbox2polygon(b2, b1.d)
        inter == InterArea(g, p)
    IN  IF inter > 0
        THEN << inter, RectArea(g) + RectArea(p) - inter >>
        ELSE << 0, 1 >>

\* line 34: mask = iou > 0.3
GateMask(b1, b2) == RatioGt(aa_iou(b1, b2), 3, 10)

\* iou with the threshold comparison the wrong way round
iou_reversed(box1, box2, thr) ==
    [i \in 1 .. Len(box2) |->
        GateMask(box1, box2[i])
            /\ ~RatioGt(skewiou(box1, box2[i]), thr, 10)]

\* iou, lines 16-40: large_overlap of box1 against each row of box2
iou(box1, box2, thr) ==
    [i \in 1 .. Len(box2) |->
        GateMask(box1, box2[i]) /\ RatioGt(skewiou(box1, box2[i]), thr, 10)]

(***************************************************************************)
(* post_process, lines 93-160: pure parts.                                 *)
(***************************************************************************)
\* line 125: object confidence times class confidence (hundredths)
ClassConf(c) == Max(c.probs[1], c.probs[2])
ClassPred(c) == IF c.probs[1] >= c.probs[2] THEN 0 ELSE 1
Score(c) == c.conf * ClassConf(c)
DetScore(t) == t.conf * t.cls_conf

\* the filter reading the first class probability (column 6) instead of the
\* object confidence (column 5)
ConfFilter_wrongColumn(preds, ct) ==
    SelectSeq(preds, LAMBDA c : c.probs[1] >= ct)

\* line 120: rows with object confidence >= conf_thres, order kept
ConfFilter(preds, ct) == SelectSeq(preds, LAMBDA c : c.conf >= ct)

\* argsort without descending=True: the ascending-score orderings
RECURSIVE Argsorts_ascending(_)
Argsorts_ascending(t) ==
    IF t = << >> THEN { << >> }
    ELSE UNION { { << t[i] >> \o s :
                     s \in Argsorts_ascending(SubSeq(t, 1, i - 1)
                                                \o SubSeq(t, i + 1, Len(t))) } :
                 i \in { j \in 1 .. Len(t) :
                            \A k \in 1 .. Len(t) :
                                t[j].conf * Max(t[j].probs[1], t[j].probs[2])
                                  <= t[k].conf * Max(t[k].probs[1], t[k].probs[2]) } }

\* line 127: the descending-score orderings of the rows of t; argsort is
\* not stable, rows of equal score come in any order
RemoveAt(t, i) == SubSeq(t, 1, i - 1) \o SubSeq(t, i + 1, Len(t))
RECURSIVE Argsorts(_)
Argsorts(t) ==
    IF t = << >> THEN { << >> }
    ELSE UNION { { << t[i] >> \o s : s \in Argsorts(RemoveAt(t, i)) } :
                 i \in { j \in 1 .. Len(t) :
                            \A k \in 1 .. Len(t) : Score(t[j]) >= Score(t[k]) } }

\* lines 128-129
CapNms(t) == IF Len(t) > max_nms THEN SubSeq(t, 1, max_nms) ELSE t

\* lines 130-131: (x, y, w, h, a, conf, class_conf, class_pred)
Detection(c) ==
    [x |-> c.x, y |-> c.y, w |-> c.w, h |-> c.h, d |-> c.d, a |-> c.a,
     conf |-> c.conf, cls_conf |-> ClassConf(c), cls |-> ClassPred(c)]

\* line 135: detections[:, -1].unique(), ascending
RECURSIVE SortedSeq(_)
SortedSeq(S) ==
    IF S = {} THEN << >>
    ELSE LET m == CHOOSE x \in S : \A y \in S : x <= y
         IN  << m >> \o SortedSeq(S \ {m})
Unique(dets) == SortedSeq({ dets[i].cls : i \in 1 .. Len(dets) })

\* line 137
OfLabel(dets, label) == SelectSeq(dets, LAMBDA t : t.cls = label)

\* rows of t selected by the boolean mask m, order kept (lines 145-146)
RECURSIVE MaskSelect(_, _, _)
MaskSelect(t, m, v) ==
    IF t = << >> THEN << >>
    ELSE (IF m[1] = v THEN << Head(t) >> ELSE << >>)
         \o MaskSelect(Tail(t), [i \in 1 .. (Len(t) - 1) |-> m[i + 1]], v)

\* the merge with best_bbox[:4] not multiplied by its own confidence
\* (confidences are tenths: the unweighted term counts 10)
Merge_bestUnweighted(best, throwayay) ==
    LET n == Len(throwayay)
        L == best.d * ProdSeq([i \in 1 .. n |-> throwayay[i].d])
        W == best.conf + SumSeq([i \in 1 .. n |-> throwayay[i].conf])
        num(k) == 10 * best[k] * (L \div best.d)
                  + SumSeq([i \in 1 .. n |->
                        throwayay[i].conf * throwayay[i][k]
                        * (L \div throwayay[i].d)])
    IN  Reduce([best EXCEPT !.x = num("x"), !.y = num("y"),
                            !.w = num("w"), !.h = num("h"),
                            !.d = L * W])

\* the merge as a plain mean of best and the suppressed boxes
Merge_plainMean(best, throwayay) ==
    LET n == Len(throwayay)
        L == best.d * ProdSeq([i \in 1 .. n |-> throwayay[i].d])
        num(k) == best[k] * (L \div best.d)
                  + SumSeq([i \in 1 .. n |->
                        throwayay[i][k] * (L \div throwayay[i].d)])
    IN  Reduce([best EXCEPT !.x = num("x"), !.y = num("y"),
                            !.w = num("w"), !.h = num("h"),
                            !.d = L * (n + 1)])

\* the merge over best_bbox[:5]: the angle averaged with the box
Merge_alsoAngle(best, throwayay) ==
    LET n == Len(throwayay)
        L == best.d * ProdSeq([i \in 1 .. n |-> throwayay[i].d])
        W == best.conf + SumSeq([i \in 1 .. n |-> throwayay[i].conf])
        num(k) == best.conf * best[k] * (L \div best.d)
                  + SumSeq([i \in 1 .. n |->
                        throwayay[i].conf * throwayay[i][k]
                        * (L \div throwayay[i].d)])
        angle == (best.conf * best.a
                  + SumSeq([i \in 1 .. n |-> throwayay[i].conf * throwayay[i].a]))
                 \div W
    IN  Reduce([best EXCEPT !.x = num("x"), !.y = num("y"),
                            !.w = num("w"), !.h = num("h"),
                            !.d = L * W, !.a = angle])

\* lines 148-150: best[:4] = (best[:4] * conf + sum(w_i * box_i)) / (conf + sum w_i)
Merge(best, throwayay) ==
    LET n == Len(throwayay)
        L == best.d * ProdSeq([i \in 1 .. n |-> throwayay[i].d])
        W == best.conf + SumSeq([i \in 1 .. n |-> throwayay[i].conf])
        num(k) == best.conf * best[k] * (L \div best.d)
                  + SumSeq([i \in 1 .. n |->
                        throwayay[i].conf * throwayay[i][k]
                        * (L \div throwayay[i].d)])
    IN  Reduce([best EXCEPT !.x = num("x"), !.y = num("y"),
                            !.w = num("w"), !.h = num("h"),
                            !.d = L * W])

\* one pass of the while loop without line 146: the suppressed rows stay
NmsIteration_keepsSuppressed(det, thr) ==
    LET best_bbox == Head(det)
        rest == Tail(det)
    IN  IF rest = << >>
        THEN [best |-> best_bbox, rest |-> rest, thrown |-> << >>]
        ELSE LET large_overlap == iou(best_bbox, rest, thr)
                 throwayay == MaskSelect(rest, large_overlap, TRUE)
             IN  [best |-> Merge(best_bbox, throwayay),
                  rest |-> rest,
                  thrown |-> throwayay]

\* one pass of the while loop, lines 139-152
NmsIteration(det, thr) ==
    LET best_bbox == Head(det)
        rest == Tail(det)
    IN  IF rest = << >>
        THEN [best |-> best_bbox, rest |-> rest, thrown |-> << >>]
        ELSE LET large_overlap == iou(best_bbox, rest, thr)
                 throwayay == MaskSelect(rest, large_overlap, TRUE)
             IN  [best |-> Merge(best_bbox, throwayay),
                  rest |-> MaskSelect(rest, large_overlap, FALSE),
                  thrown |-> throwayay]

\* the while loop of one label, lines 138-152
RECURSIVE NmsClass(_, _)
NmsClass(det, thr) ==
    IF det = << >> THEN << >>
    ELSE LET it == NmsIteration(det, thr)
         IN  << it.best >> \o NmsClass(it.rest, thr)

\* the label loop, lines 134-152
RECURSIVE NmsLabels(_, _, _)
NmsLabels(dets, ls, thr) ==
    IF ls = << >> THEN << >>
    ELSE NmsClass(OfLabel(dets, Head(ls)), thr) \o NmsLabels(dets, Tail(ls), thr)
Nms(dets, thr) == NmsLabels(dets, Unique(dets), thr)

\* lines 156-157
CapDet(keep) == IF Len(keep) > max_det THEN SubSeq(keep, 1, max_det) ELSE keep

(***************************************************************************)
(* Inputs of post_process.                                                 *)
(***************************************************************************)
Cand(x, w, h, a, conf, p0, p1, img) ==
    [x |-> x, y |-> 0, w |-> w, h |-> h, d |-> 1, a |-> a,
     conf |-> conf, probs |-> << p0, p1 >>, img |-> img]

\* The candidates a batch is drawn from: boxes on one row that overlap each
\* other to different degrees, one of them upright (a quarter turn), in two
\* classes, two images and confidences both sides of the thresholds.
Catalog ==
    << Cand(3, 10, 4, 0, 9, 8, 2, 0),   \* x in [-2, 8]
       Cand(3, 6, 4, 0, 8, 8, 2, 0),    \* x in [0, 6]
       Cand(2, 4, 4, 0, 7, 8, 2, 0),    \* x in [0, 4]
       Cand(4, 4, 4, 0, 6, 8, 2, 0),    \* x in [2, 6]
       Cand(3, 4, 10, 1, 9, 8, 2, 0),   \* the first box, given upright
       Cand(3, 6, 4, 0, 3, 8, 2, 0),
       Cand(3, 10, 4, 0, 9, 2, 8, 0),
       Cand(2, 4, 4, 0, 7, 2, 8, 0),
       Cand(3, 6, 4, 0, 8, 8, 2, 1) >>

ConfThresholds == {1, 5}
NmsThresholds == {4, 6}

\* a batch is a multiset of catalogue entries: their order within an image
\* only breaks ties of the sort, which Argsorts leaves open
Batches ==
    UNION { { f \in [1 .. n -> 1 .. Len(Catalog)] :
                \A i \in 1 .. (n - 1) : f[i] <= f[i + 1] } : n \in 0 .. MaxCands }

Row(c) == [x |-> c.x, y |-> c.y, w |-> c.w, h |-> c.h, d |-> c.d, a |-> c.a,
           conf |-> c.conf, probs |-> c.probs]

RECURSIVE RowsOf(_, _)
RowsOf(f, b) ==
    IF f = << >> THEN << >>
    ELSE (IF Catalog[Head(f)].img = b THEN << Row(Catalog[Head(f)]) >> ELSE << >>)
         \o RowsOf(Tail(f), b)

\* line 107: img_size / pred.size(2), the factor from grid to image units
img_scale == 2

\* line 107: pred[..., :4] = pred[..., :4] * (img_size / pred.size(2))
Rescale(rows) ==
    [i \in 1 .. Len(rows) |->
        [rows[i] EXCEPT !.x = @ * img_scale, !.y = @ * img_scale,
                        !.w = @ * img_scale, !.h = @ * img_scale]]

(***************************************************************************)
(* post_process as a state machine.                                        *)
(***************************************************************************)
PostInit ==
    /\ pc = "idle"
    /\ pred = [b \in Images |-> << >>]
    /\ predictions = [b \in Images |-> << >>]
    /\ conf_thres = 5
    /\ nms_thres = 4
    /\ batch = 0
    /\ image_pred = << >>
    /\ detections = << >>
    /\ labels = << >>
    /\ detect = << >>
    /\ keep_boxes = << >>
    /\ merged = << >>
    /\ output = [b \in Images |-> << >>]

\* the caller's tensors: the model's output for a batch, in grid units
Predict ==
    /\ pc = "idle"
    /\ \E f \in Batches : pred' = [b \in Images |-> RowsOf(f, b)]
    /\ pc' = "args"
    /\ UNCHANGED << predictions, conf_thres, nms_thres, batch, image_pred,
                    detections, labels, detect, keep_boxes, merged, output >>
    /\ UNCHANGED << lossVars, ciouVars >>

\* lines 93-116: the call; the caller's tensors are rescaled in place (line
\* 107), their rows concatenated into a new tensor (108-110), output = [[] ...]
Call ==
    /\ pc = "args"
    /\ \E ct \in ConfThresholds, nt \in NmsThresholds :
          /\ conf_thres' = ct
          /\ nms_thres' = nt
    /\ pred' = [b \in Images |-> Rescale(pred[b])]
    /\ predictions' = [b \in Images |-> Rescale(pred[b])]
    /\ output' = [b \in Images |-> << >>]
    /\ batch' = 0
    /\ pc' = "image"
    /\ UNCHANGED << image_pred, detections, labels, detect, keep_boxes, merged >>
    /\ UNCHANGED << lossVars, ciouVars >>

\* the filter leaving the image loop (break) where line 123 continues
FilterConf_break ==
    /\ pc = "image"
    /\ batch < BatchSize
    /\ LET kept == ConfFilter(predictions[batch], conf_thres)
       IN  /\ image_pred' = kept
           /\ IF kept = << >>
              THEN /\ batch' = BatchSize
                   /\ pc' = "image"
              ELSE /\ batch' = batch
                   /\ pc' = "sort"
    /\ UNCHANGED << pred, predictions, conf_thres, nms_thres, detections, labels,
                    detect, keep_boxes, merged, output >>
    /\ UNCHANGED << lossVars, ciouVars >>

\* lines 118-123: the confidence filter of the next image
FilterConf ==
    /\ pc = "image"
    /\ batch < BatchSize
    /\ LET kept == ConfFilter(predictions[batch], conf_thres)
       IN  /\ image_pred' = kept
           /\ IF kept = << >>
              THEN /\ batch' = batch + 1
                   /\ pc' = "image"
              ELSE /\ batch' = batch
                   /\ pc' = "sort"
    /\ UNCHANGED << pred, predictions, conf_thres, nms_thres, detections, labels,
                    detect, keep_boxes, merged, output >>
    /\ UNCHANGED << lossVars, ciouVars >>

\* lines 125-135: sort by score, cap at max_nms, class of each row, labels
SortCap ==
    /\ pc = "sort"
    /\ \E s \in Argsorts(image_pred) :
          LET capped == CapNms(s)
              dets == [i \in 1 .. Len(capped) |-> Detection(capped[i])]
          IN  /\ image_pred' = capped
              /\ detections' = dets
              /\ labels' = Unique(dets)
    /\ keep_boxes' = << >>
    /\ merged' = << >>
    /\ detect' = << >>
    /\ pc' = "label"
    /\ UNCHANGED << pred, predictions, conf_thres, nms_thres, batch, output >>
    /\ UNCHANGED << lossVars, ciouVars >>

\* lines 136-137: the next label and its detections
NextLabel ==
    /\ pc = "label"
    /\ labels # << >>
    /\ detect' = OfLabel(detections, Head(labels))
    /\ pc' = "while"
    /\ UNCHANGED << pred, predictions, conf_thres, nms_thres, batch, image_pred,
                    detections, labels, keep_boxes, merged,
                    output >>
    /\ UNCHANGED << lossVars, ciouVars >>

\* lines 138-152: one pass of the while loop
Suppress ==
    /\ pc = "while"
    /\ detect # << >>
    /\ LET it == NmsIteration(detect, nms_thres)
       IN  /\ detect' = it.rest
           /\ keep_boxes' = Append(keep_boxes, it.best)
           /\ merged' = Append(merged, << Head(detect) >> \o it.thrown)
    /\ UNCHANGED << pc, pred, predictions, conf_thres, nms_thres, batch, image_pred,
                    detections, labels, output >>
    /\ UNCHANGED << lossVars, ciouVars >>

\* line 138: the while loop ends, on to the next label
EndLabel ==
    /\ pc = "while"
    /\ detect = << >>
    /\ labels' = Tail(labels)
    /\ pc' = "label"
    /\ UNCHANGED << pred, predictions, conf_thres, nms_thres, batch, image_pred,
                    detections, detect, keep_boxes, merged, output >>
    /\ UNCHANGED << lossVars, ciouVars >>

\* lines 154-158: keep_boxes stacked, cut at max_det and stored
Store ==
    /\ pc = "label"
    /\ labels = << >>
    /\ IF keep_boxes # << >>
       THEN /\ keep_boxes' = CapDet(keep_boxes)
            /\ output' = [output EXCEPT ![batch] = CapDet(keep_boxes)]
       ELSE UNCHANGED << keep_boxes, output >>
    /\ batch' = batch + 1
    /\ pc' = "image"
    /\ UNCHANGED << pred, predictions, conf_thres, nms_thres, image_pred, detections,
                    labels, detect, merged >>
    /\ UNCHANGED << lossVars, ciouVars >>

\* line 160
Return ==
    /\ pc = "image"
    /\ batch = BatchSize
    /\ pc' = "done"
    /\ UNCHANGED << pred, predictions, conf_thres, nms_thres, batch, image_pred,
                    detections, labels, detect, keep_boxes, merged, output >>
    /\ UNCHANGED << lossVars, ciouVars >>



PostNext ==
    \/ Predict
    \/ Call
    \/ FilterConf
    \/ SortCap
    \/ NextLabel
    \/ Suppress
    \/ EndLabel
    \/ Store
    \/ Return

(***************************************************************************)
(* Target assignment, lib/loss.py lines 151-240.                           *)
(* Ground-truth x, y, w, h are quarters of the image side; multiplied by   *)
(* the grid size nG they are quarters of a cell, the unit of the anchors'  *)
(* w and h.  Angles are in units of pi/24 (7.5 degrees).                   *)
(***************************************************************************)
\* grid size of a detection scale
nG(s) == IF s = 1 THEN 2 ELSE 4

\* masked_anchors of a scale: rows (w, h, angle)
masked_anchors(s) ==
    IF s = 1
    THEN << [w |-> 4, h |-> 4, a |-> 0],
            [w |-> 4, h |-> 8, a |-> 0],
            [w |-> 4, h |-> 4, a |-> 4] >>
    ELSE << [w |-> 4, h |-> 4, a |-> 0],
            [w |-> 8, h |-> 8, a |-> 0],
            [w |-> 8, h |-> 8, a |-> 4] >>

nA(s) == Len(masked_anchors(s))

\* indices (b, anchor, gj, gi) of the tensors of lines 161-168; anchors from 1
Cells(s) ==
    { << b, a, j, i >> : b \in Images, a \in 1 .. nA(s),
                         j \in 0 .. (nG(s) - 1), i \in 0 .. (nG(s) - 1) }

\* 1000 * |cos| of 0, 7.5, ... 90 degrees, and of any angle in units of pi/24
CosTable == << 1000, 991, 966, 924, 866, 793, 707, 609, 500, 383, 259, 131, 0 >>
AbsCos(k) ==
    LET r == Abs(k) % 24
        q == IF r > 12 THEN 24 - r ELSE r
    IN  CosTable[q + 1]

\* anchor_wh_iou (lib/utils): IoU of two boxes by width and height alone
anchor_wh_iou(anchor, gw, gh) ==
    LET inter == Min(anchor.w, gw) * Min(anchor.h, gh)
    IN  << inter, anchor.w * anchor.h + gw * gh - inter >>

\* line 173: target_boxes, x y w h times nG
gw(g, s) == g.w * nG(s)
gh(g, s) == g.h * nG(s)

\* lines 184-186: ariou * |cos(anchor angle - ga)| as a ratio, times 1000
ariou(anchor, g, s) ==
    LET r == anchor_wh_iou(anchor, gw(g, s), gh(g, s))
    IN  << r[1] * AbsCos(anchor.a - g.a), r[2] >>

\* line 187: |anchor angle - ga|
offset(anchor, g) == Abs(anchor.a - g.a)

\* ratio r1 > ratio r2
RatioGreater(r1, r2) == r1[1] * r2[2] > r2[1] * r1[2]

\* line 190: arious.max(0), the first anchor of maximal value
best_n(g, s) ==
    CHOOSE a \in 1 .. nA(s) :
        /\ \A o \in 1 .. nA(s) :
              ~RatioGreater(ariou(masked_anchors(s)[o], g, s),
                            ariou(masked_anchors(s)[a], g, s))
        /\ \A o \in 1 .. (a - 1) :
              RatioGreater(ariou(masked_anchors(s)[a], g, s),
                           ariou(masked_anchors(s)[o], g, s))

\* .long(): truncation towards zero of n / 4
Long(n) == IF n >= 0 THEN n \div 4 ELSE -((-n) \div 4)
Clamp(v, lo, hi) == Max(lo, Min(v, hi))

\* lines 195-199
gi(g, s) == Clamp(Long(g.x * nG(s)), 0, nG(s) - 1)
gj(g, s) == Clamp(Long(g.y * nG(s)), 0, nG(s) - 1)

\* the index b, best_n, gj, gi of a ground truth
BestCell(g, s) == << g.b, best_n(g, s), gj(g, s), gi(g, s) >>

\* obj_mask set for every anchor of the cell instead of the best one
ObjCells_allAnchors(tg, s) ==
    { << tg[k].b, a, gj(tg[k], s), gi(tg[k], s) >> :
        k \in 1 .. Len(tg), a \in 1 .. nA(s) }

\* noobj_mask cleared at [b, best_n, gi, gj], row and column exchanged
NoobjCleared_swapped(tg, s) ==
    { << tg[k].b, best_n(tg[k], s), gi(tg[k], s), gj(tg[k], s) >> :
        k \in 1 .. Len(tg) }

\* lines 203-204
ObjCells(tg, s) == { BestCell(tg[k], s) : k \in 1 .. Len(tg) }
NoobjCleared(tg, s) == { BestCell(tg[k], s) : k \in 1 .. Len(tg) }

\* the ignore loop with line 209 alone, the band of line 211 left out
IgnoredAnchors_thresholdOnly(g, s, thr) ==
    { a \in 1 .. nA(s) :
        LET r == ariou(masked_anchors(s)[a], g, s)
        IN  r[1] > thr * r[2] }

\* lines 209-211: the anchors whose noobj_mask is cleared for ground truth g
IgnoredAnchors(g, s, thr) ==
    { a \in 1 .. nA(s) :
        LET r == ariou(masked_anchors(s)[a], g, s)
        IN  \/ r[1] > thr * r[2]
            \/ /\ r[1] > 400 * r[2]
               /\ offset(masked_anchors(s)[a], g) < 2 }
IgnoredCells(g, s, thr) ==
    { << g.b, a, gj(g, s), gi(g, s) >> : a \in IgnoredAnchors(g, s, thr) }

\* an indexed assignment t[b, best_n, gj, gi] = v: for every written cell
\* the ground truth whose value it ends up with.  Where several ground
\* truths have the same index it is one of them (the last on the CPU,
\* unspecified on other devices).
Writers(tg, s) ==
    LET cell == [k \in 1 .. Len(tg) |-> BestCell(tg[k], s)]
        cells == { cell[k] : k \in 1 .. Len(tg) }
    IN  { f \in [cells -> 1 .. Len(tg)] : \A c \in cells : cell[f[c]] = c }

\* line 214
AngleTarget(g, s) == g.a - masked_anchors(s)[best_n(g, s)].a

\* line 217: tcls[b, best_n, gj, gi, target_labels] = 1
ClassOnes(tg, s) ==
    { << BestCell(tg[k], s), tg[k].label >> : k \in 1 .. Len(tg) }

(***************************************************************************)
(* Inputs of ComputeLoss.                                                  *)
(***************************************************************************)
GT(b, label, x, y, h, a) ==
    [b |-> b, label |-> label, x |-> x, y |-> y, w |-> 2, h |-> h, a |-> a]

\* The ground truths a batch is drawn from, in quarters of the image and
\* pi/24: two that differ in the class alone, shapes and angles with
\* different best anchors and ignore bands, a second cell, a second image,
\* a centre outside the image, and an angle far from every anchor's.
GroundTruths ==
    { GT(0, 0, 2, 2, 2, 1),
      GT(0, 1, 2, 2, 2, 1),
      GT(0, 0, 2, 2, 3, 1),
      GT(0, 1, 2, 2, 2, 5),
      GT(0, 0, 2, 2, 3, 5),
      GT(0, 0, 4, 2, 2, 1),
      GT(BatchSize - 1, 0, 2, 2, 2, 1),
      GT(0, 0, -1, 5, 2, 1),
      GT(0, 0, 4, 2, 2, -8) }

TargetLists == UNION { [1 .. n -> GroundTruths] : n \in 0 .. MaxTargets }

IgnoreThresholds == {500, 600}

(***************************************************************************)
(* ComputeLoss as a state machine: build_targets and the loss terms, once  *)
(* for every detection scale.                                              *)
(***************************************************************************)
\* lines 164-167: the per-cell tensors, all zero
NoValues == [skew_iou |-> << >>, ciou_loss |-> << >>,
             class_mask |-> << >>, iou_scores |-> << >>]

NoLoss == [reg_loss |-> << >>, conf_loss |-> << >>, cls_loss |-> << >>]

LossInit ==
    /\ lpc = "idle"
    /\ target = << >>
    /\ ignore_thresh = 600
    /\ scale = 1
    /\ gt_i = 1
    /\ obj_mask = [s \in Scales |-> {}]
    /\ noobj_mask = [s \in Scales |-> {}]
    /\ ta = << >>
    /\ tcls = {}
    /\ cellval = NoValues
    /\ losses = [s \in Scales |-> NoLoss]

\* the call with the batch's ground truths
LossCall ==
    /\ lpc = "idle"
    /\ \E tg \in TargetLists, it \in IgnoreThresholds :
          /\ target' = tg
          /\ ignore_thresh' = it
    /\ scale' = 1
    /\ lpc' = "build"
    /\ UNCHANGED << gt_i, obj_mask, noobj_mask, ta, tcls, cellval, losses >>
    /\ UNCHANGED << postVars, ciouVars >>

\* lines 161-204: the tensors, obj_mask set and noobj_mask cleared at the
\* best anchor's cell of every ground truth
BuildMasks ==
    /\ lpc = "build"
    /\ obj_mask' = [obj_mask EXCEPT ![scale] = ObjCells(target, scale)]
    /\ noobj_mask' = [noobj_mask EXCEPT
                         ![scale] = Cells(scale) \ NoobjCleared(target, scale)]
    /\ ta' = << >>
    /\ tcls' = {}
    /\ cellval' = NoValues
    /\ gt_i' = 1
    /\ lpc' = "ignore"
    /\ UNCHANGED << target, ignore_thresh, scale, losses >>
    /\ UNCHANGED << postVars, ciouVars >>

\* lines 208-211: one pass of the loop over the ground truths
IgnoreBand ==
    /\ lpc = "ignore"
    /\ gt_i <= Len(target)
    /\ noobj_mask' = [noobj_mask EXCEPT ![scale] =
                         @ \ IgnoredCells(target[gt_i], scale, ignore_thresh)]
    /\ gt_i' = gt_i + 1
    /\ UNCHANGED << lpc, target, ignore_thresh, scale, obj_mask, ta, tcls,
                    cellval, losses >>
    /\ UNCHANGED << postVars, ciouVars >>

\* lines 213-240: the encoded targets and the per-cell values
Encode ==
    /\ lpc = "ignore"
    /\ gt_i > Len(target)
    /\ \E w0, w1, w2, w3, w4 \in Writers(target, scale) :
          /\ ta' = [c \in DOMAIN w0 |-> AngleTarget(target[w0[c]], scale)]
          /\ cellval' = [skew_iou |-> w1, ciou_loss |-> w2,
                         class_mask |-> w3, iou_scores |-> w4]
    /\ tcls' = tcls \cup ClassOnes(target, scale)
    /\ lpc' = "loss"
    /\ UNCHANGED << target, ignore_thresh, scale, gt_i, obj_mask, noobj_mask,
                    losses >>
    /\ UNCHANGED << postVars, ciouVars >>

\* the loss terms without the guard len(target) > 0 of line 107
LossTerms_unguarded(tg, obj, noobj) ==
    [reg_loss |-> << [kind |-> "mean", cells |-> obj] >>,
     conf_loss |-> << [kind |-> "focal_obj", cells |-> obj],
                      [kind |-> "focal_noobj", cells |-> noobj] >>,
     cls_loss |-> << [kind |-> "bce", cells |-> obj] >>]

\* lines 104-128: the loss terms of the scale
LossTerms(tg, obj, noobj) ==
    LET matched == IF Len(tg) > 0
                   THEN [reg_loss |-> << [kind |-> "mean", cells |-> obj] >>,
                         conf_loss |-> << [kind |-> "focal_obj", cells |-> obj] >>,
                         cls_loss |-> << [kind |-> "bce", cells |-> obj] >>]
                   ELSE NoLoss
    IN  [matched EXCEPT !.conf_loss =
            Append(@, [kind |-> "focal_noobj", cells |-> noobj])]

Aggregate ==
    /\ lpc = "loss"
    /\ losses' = [losses EXCEPT ![scale] =
                     LossTerms(target, obj_mask[scale], noobj_mask[scale])]
    /\ lpc' = "scaled"
    /\ UNCHANGED << target, ignore_thresh, scale, gt_i, obj_mask, noobj_mask,
                    ta, tcls, cellval >>
    /\ UNCHANGED << postVars, ciouVars >>

\* the caller's loop: target assignment and loss for every detection scale
NextScale ==
    /\ lpc = "scaled"
    /\ IF scale < NumScales
       THEN /\ scale' = scale + 1
            /\ lpc' = "build"
       ELSE /\ scale' = scale
            /\ lpc' = "done"
    /\ UNCHANGED << target, ignore_thresh, gt_i, obj_mask, noobj_mask, ta, tcls,
                    cellval, losses >>
    /\ UNCHANGED << postVars, ciouVars >>

LossNext ==
    \/ LossCall
    \/ BuildMasks
    \/ IgnoreBand
    \/ Encode
    \/ Aggregate
    \/ NextScale

(***************************************************************************)
(* bbox_xywha_ciou, lib/loss.py lines 29-90, as far as the sizes of its    *)
(* arguments decide what it does.                                          *)
(***************************************************************************)
\* the sizes tried: 0 .. MaxBoxes rows of (x, y, w, h) or (x, y, w, h, a)
BoxSizes == (0 .. MaxBoxes) \X {4, 5}

\* the number of rows of an elementwise result of tensors of n1 and n2
\* rows (lines 63-66): equal, or one of them 1; -1 where torch raises
BroadcastRows(n1, n2) ==
    IF n1 = n2 THEN n1
    ELSE IF n1 = 1 THEN n2
    ELSE IF n2 = 1 THEN n1
    ELSE -1

NoOutput == [kind |-> "none"]
Raised(what) == [kind |-> "error", what |-> what]

CiouInit ==
    /\ cpc = "idle"
    /\ pred_size = << 0, 5 >>
    /\ target_size = << 0, 5 >>
    /\ ciou_out = NoOutput

\* the call with its two box batches
CiouCall ==
    /\ cpc = "idle"
    /\ \E ps \in BoxSizes, ts \in BoxSizes :
          /\ pred_size' = ps
          /\ target_size' = ts
    /\ cpc' = "assert"
    /\ UNCHANGED ciou_out
    /\ UNCHANGED << postVars, lossVars >>

\* the call without the assert of line 37
CiouAssert_absent ==
    /\ cpc = "assert"
    /\ cpc' = "compute"
    /\ UNCHANGED << pred_size, target_size, ciou_out >>
    /\ UNCHANGED << postVars, lossVars >>

\* line 37: assert pred_boxes.size() == target_boxes.size()
CiouAssert ==
    /\ cpc = "assert"
    /\ IF pred_size = target_size
       THEN /\ cpc' = "compute"
            /\ UNCHANGED ciou_out
       ELSE /\ cpc' = "raised"
            /\ ciou_out' = Raised("AssertionError")
    /\ UNCHANGED << pred_size, target_size >>
    /\ UNCHANGED << postVars, lossVars >>

\* lines 39-90: corners, areas and centres of each batch, the elementwise
\* terms of both (from line 63), the angle column (line 87), the return
CiouCompute ==
    /\ cpc = "compute"
    /\ LET rows == BroadcastRows(pred_size[1], target_size[1])
       IN  IF rows = -1
           THEN /\ cpc' = "raised"
                /\ ciou_out' = Raised("RuntimeError")
           ELSE IF pred_size[2] < 5 \/ target_size[2] < 5
           THEN /\ cpc' = "raised"
                /\ ciou_out' = Raised("IndexError")
           ELSE /\ cpc' = "returned"
                /\ ciou_out' = [kind |-> "value", rows |-> rows]
    /\ UNCHANGED << pred_size, target_size >>
    /\ UNCHANGED << postVars, lossVars >>

CiouNext ==
    \/ CiouCall
    \/ CiouAssert
    \/ CiouCompute

(***************************************************************************)
(* Specifications: post_process (Spec), ComputeLoss (SpecLoss) and         *)
(* bbox_xywha_ciou (SpecCiou).                                             *)
(***************************************************************************)
Init == PostInit /\ LossInit /\ CiouInit
Next == PostNext
Spec == Init /\ [][Next]_vars
SpecLoss == Init /\ [][LossNext]_vars
SpecCiou == Init /\ [][CiouNext]_vars

(***************************************************************************)
(* Properties of post_process.                                             *)
(***************************************************************************)
Range(s) == { s[i] : i \in DOMAIN s }
Last(s) == s[Len(s)]

\* the label loop of the current image is over, keep_boxes is complete
PreStore == pc = "label" /\ labels = << >>

\* C3 as stated: NMS run a second time on the detections it returned, with
\* the same nms_thres, returns the same set of detections.
C3_NmsIdempotent ==
    pc = "done" =>
        \A b \in Images :
            Range(CapDet(Nms(output[b], nms_thres))) = Range(output[b])

\* C3 amended: when the first run suppressed no candidate of the image (it
\* kept every detection that entered NMS), NMS run a second time on the
\* detections it is about to return gives the same set.
C3_IdempotentWhenNothingMerged ==
    (PreStore /\ Len(keep_boxes) = Len(detections)) =>
        LET out == CapDet(keep_boxes)
        IN  Range(CapDet(Nms(out, nms_thres))) = Range(out)

\* C3 witness: two or more detections of one class entered NMS, none was
\* suppressed
C3_Witness ==
    /\ PreStore
    /\ Len(keep_boxes) = Len(detections)
    /\ \E i, j \in 1 .. Len(keep_boxes) :
          i # j /\ keep_boxes[i].cls = keep_boxes[j].cls

\* C4 as stated: with the candidates and conf_thres fixed, a larger nms_thres
\* never gives fewer kept detections.
C4_CountMonotone ==
    PreStore =>
        \A t \in NmsThresholds :
            t >= nms_thres =>
                Len(CapDet(Nms(detections, t))) >= Len(CapDet(keep_boxes))

\* C4 amended: in one pass of the while loop, for the same best box and the
\* same remaining candidates, a larger nms_thres suppresses a subset of what
\* the smaller one suppresses.
C4_PassMonotone ==
    (pc = "while" /\ detect # << >>) =>
        \A t \in NmsThresholds :
            t >= nms_thres =>
                Range(NmsIteration(detect, t).thrown)
                    \subseteq Range(NmsIteration(detect, nms_thres).thrown)

\* C4 witness: a pass in which the larger threshold suppresses strictly less
C4_Witness ==
    /\ pc = "while"
    /\ detect # << >>
    /\ \E t \in NmsThresholds :
          /\ t > nms_thres
          /\ Len(NmsIteration(detect, t).thrown)
                < Len(NmsIteration(detect, nms_thres).thrown)

\* C5: for every best box, candidate and nms_thres the gated overlap test
\* decides as the ungated test skew_iou(best, candidate) > nms_thres does.
C5_GateEquivalent ==
    (pc = "while" /\ detect # << >>) =>
        \A i \in 1 .. (Len(detect) - 1), t \in NmsThresholds :
            iou(Head(detect), Tail(detect), t)[i]
                = RatioGt(skewiou(Head(detect), Tail(detect)[i]), t, 10)

\* C6: no candidate with object_conf below conf_thres reaches NMS, is merged
\* into a box or is returned: every row of the working sets and of the output
\* has object_conf >= conf_thres.
C6_BelowThresholdDropped ==
    pc # "idle" =>
        /\ \A t \in Range(image_pred) \cup Range(detections) \cup Range(detect)
                    \cup Range(keep_boxes) : t.conf >= conf_thres
        /\ \A b \in Images : \A t \in Range(output[b]) : t.conf >= conf_thres
        /\ pc = "done" =>
              \A b \in Images :
                  (\A c \in Range(predictions[b]) : c.conf < conf_thres)
                      => output[b] = << >>

\* C6 witness: an image with a candidate below the threshold and one above it
\* has been processed
C6_Witness ==
    /\ pc = "done"
    /\ \E b \in Images :
          /\ \E c \in Range(predictions[b]) : c.conf < conf_thres
          /\ output[b] # << >>

\* what post_process returns for one image on its own
ImageResults(preds, ct, nt) ==
    IF ConfFilter(preds, ct) = << >> THEN { << >> }
    ELSE { CapDet(Nms([i \in 1 .. Len(CapNms(s)) |-> Detection(CapNms(s)[i])], nt)) :
             s \in Argsorts(ConfFilter(preds, ct)) }

\* some step of post_process can be taken (the guards of its actions)
CanStep ==
    \/ pc = "idle"
    \/ pc = "args"
    \/ pc = "image" /\ batch <= BatchSize
    \/ pc = "sort" /\ image_pred # << >>
    \/ pc = "label"
    \/ pc = "while"

\* C7: an image with no candidate left after the confidence filter gets an
\* empty list, the call does not stop before it returns, and every other
\* image of the batch gets the detections it would get on its own.
C7_EmptyImage ==
    /\ pc # "done" => CanStep
    /\ pc = "done" =>
          \A b \in Images :
              /\ ConfFilter(predictions[b], conf_thres) = << >>
                    => output[b] = << >>
              /\ output[b] \in ImageResults(predictions[b], conf_thres, nms_thres)

\* C7 witness: the first image had candidates, none survived the filter, and
\* the second image has detections
C7_Witness ==
    /\ pc = "done"
    /\ predictions[0] # << >>
    /\ ConfFilter(predictions[0], conf_thres) = << >>
    /\ output[1] # << >>

\* C9: at most max_det detections are returned for an image, and when NMS
\* kept more, the ones returned are the highest-scoring ones.
C9_CapKeepsBest ==
    [][(PreStore /\ pc' = "image") =>
          /\ Len(output'[batch]) <= max_det
          /\ \A i \in 1 .. Len(keep_boxes) :
                keep_boxes[i] \notin Range(output'[batch]) =>
                    \A t \in Range(output'[batch]) :
                        DetScore(t) >= DetScore(keep_boxes[i])]_vars

\* C10: a best box that suppresses a non-empty S gives one detection for best
\* and S together; its (cx, cy, w, h) is the confidence-weighted mean of best
\* and S, the rest of the box is best's, and with a single suppressed box of
\* lower confidence the mean is no farther from best than from that box.
C10_WeightedMerge ==
    [][(pc = "while" /\ detect # << >> /\ pc' = "while") =>
          LET best == Head(detect)
              mask == iou(best, Tail(detect), nms_thres)
              S == { i \in 1 .. (Len(detect) - 1) : mask[i] }
              confs == [i \in 1 .. (Len(detect) - 1) |->
                            IF i \in S THEN Tail(detect)[i].conf ELSE 0]
              W == best.conf + SumSeq(confs)
              m == Last(keep_boxes')
              wsum(k) == best.conf * best[k]
                         + SumSeq([i \in 1 .. (Len(detect) - 1) |->
                                      confs[i] * Tail(detect)[i][k]])
          IN  S # {} =>
                /\ \A i \in 1 .. Len(detect) : detect[i].d = 1
                /\ Len(keep_boxes') = Len(keep_boxes) + 1
                /\ Len(detect') = Len(detect) - 1 - Cardinality(S)
                /\ \A i \in S : Tail(detect)[i] \notin Range(detect')
                /\ \A k \in {"x", "y", "w", "h"} : m[k] * W = m.d * wsum(k)
                /\ \A i \in S :
                      (Cardinality(S) = 1 /\ best.conf > Tail(detect)[i].conf) =>
                          \A k \in {"x", "y", "w", "h"} :
                              Abs(m[k] - best[k] * m.d)
                                  <= Abs(m[k] - Tail(detect)[i][k] * m.d)]_vars

\* C10 witness: a kept box of confidence 0.9 that is none of the boxes that
\* entered NMS: it was merged with what it suppressed
C10_Witness ==
    /\ pc = "while"
    /\ keep_boxes # << >>
    /\ Last(keep_boxes).conf = 9
    /\ \A t \in Range(detections) :
          << t.x, t.y, t.w, t.h, t.d >>
              # << Last(keep_boxes).x, Last(keep_boxes).y, Last(keep_boxes).w,
                    Last(keep_boxes).h, Last(keep_boxes).d >>

(***************************************************************************)
(* Properties of target assignment and the loss.                           *)
(***************************************************************************)
\* build_targets has run for the scales below `scale`, and for `scale` too
\* once the loop of line 208 is over
Built(s) == lpc # "idle" /\ (s < scale \/ (s = scale /\ lpc \in {"loss", "scaled", "done"}))

\* C1: after build_targets no cell has obj_mask and noobj_mask both true,
\* whatever ground truths collide or fall in the ignore band.
C1_MasksDisjoint ==
    \A s \in Scales : Built(s) => obj_mask[s] \cap noobj_mask[s] = {}

\* C1 witness: build_targets has run on two ground truths of one cell, with
\* a cell of the ignore band that is neither object nor no-object
C1_Witness ==
    /\ lpc = "loss"
    /\ Len(target) = 2
    /\ BestCell(target[1], scale) = BestCell(target[2], scale)
    /\ obj_mask[scale] # {}
    /\ obj_mask[scale] \cup noobj_mask[scale] # Cells(scale)

\* C2 as stated: with one ground truth, once target assignment has run for
\* every scale exactly one cell of all scales together has obj_mask true.
C2_OneCellOverall ==
    (lpc = "done" /\ Len(target) = 1) =>
        Cardinality(UNION { { << s, c >> : c \in obj_mask[s] } : s \in Scales }) = 1

\* C2 amended: with one ground truth, exactly one cell of every scale has
\* obj_mask true, a cell of the ground truth's image.
C2_OneCellPerScale ==
    (lpc = "done" /\ Len(target) = 1) =>
        \A s \in Scales :
            /\ Cardinality(obj_mask[s]) = 1
            /\ \A c \in obj_mask[s] : c[1] = target[1].b /\ c \in Cells(s)

\* C2 witness: all scales done for a batch of one ground truth
C2_Witness ==
    /\ lpc = "done"
    /\ Len(target) = 1
    /\ \A s \in Scales : obj_mask[s] # {}

\* some step of ComputeLoss can be taken (the guards of its actions)
LossCanStep ==
    \/ lpc = "idle"
    \/ lpc = "build" /\ scale \in Scales
    \/ lpc = "ignore" /\ gt_i <= Len(target) + 1
    \/ lpc = "loss"
    \/ lpc = "scaled"

\* C8: with no ground truth the call runs to its end, regression and
\* classification loss stay the zero they start as, obj_mask is false and
\* noobj_mask true at every cell, and the confidence loss is the no-object
\* term alone.
C8_EmptyTargets ==
    /\ lpc # "done" => LossCanStep
    /\ (lpc = "done" /\ target = << >>) =>
          \A s \in Scales :
              /\ losses[s].reg_loss = << >>
              /\ losses[s].cls_loss = << >>
              /\ obj_mask[s] = {}
              /\ noobj_mask[s] = Cells(s)
              /\ losses[s].conf_loss
                    = << [kind |-> "focal_noobj", cells |-> Cells(s)] >>

\* C8 witness: the call has ended for an empty ground-truth list
C8_Witness == lpc = "done" /\ target = << >>

(***************************************************************************)
(* Further properties of post_process.                                     *)
(***************************************************************************)
\* C11: post_process leaves the tensors the caller passed unchanged, so a
\* second call on them with the same thresholds returns what the first
\* call returns.
C11_Pure ==
    [][(pc = "args" /\ pc' = "image") =>
          /\ pred' = pred
          /\ \A b \in Images :
                ImageResults(Rescale(pred'[b]), conf_thres', nms_thres')
                    = ImageResults(Rescale(pred[b]), conf_thres', nms_thres')]_vars

\* x is a subsequence of y: the rows of x are rows of y, in y's order
RECURSIVE IsSubSeq(_, _)
IsSubSeq(x, y) ==
    IF x = << >> THEN TRUE
    ELSE IF y = << >> THEN FALSE
    ELSE IF Head(x) = Head(y) THEN IsSubSeq(Tail(x), Tail(y))
    ELSE IsSubSeq(x, Tail(y))

\* C15: a pass of the NMS loop changes only (cx, cy, w, h) of the best box:
\* the detection it appends has the angle, object_conf, class_conf and class
\* of the best candidate as taken, and the candidates left in the class
\* are rows of the previous remaining set, unchanged and in their order.
C15_MergeFrame ==
    [][(pc = "while" /\ detect # << >> /\ pc' = "while") =>
          LET best == Head(detect)
              m == Last(keep_boxes')
          IN  /\ m.a = best.a
              /\ m.conf = best.conf
              /\ m.cls_conf = best.cls_conf
              /\ m.cls = best.cls
              /\ IsSubSeq(detect', Tail(detect))
              /\ detections' = detections]_vars

\* C15 witness: a best box has been merged with a suppressed box of another
\* angle, its (cx, cy, w, h) changed, and candidates remain in the class
C15_Witness ==
    /\ pc = "while"
    /\ detect # << >>
    /\ merged # << >>
    /\ Len(Last(merged)) >= 2
    /\ \E i \in 2 .. Len(Last(merged)) : Last(merged)[i].a # Last(merged)[1].a
    /\ << Last(keep_boxes).x, Last(keep_boxes).y, Last(keep_boxes).w,
          Last(keep_boxes).h, Last(keep_boxes).d >>
          # << Last(merged)[1].x, Last(merged)[1].y, Last(merged)[1].w,
               Last(merged)[1].h, Last(merged)[1].d >>

\* C16: in every pass of the per-class loop the candidate taken as best has
\* a score (object_conf * class_conf) at least that of every candidate left
\* in the class, and the detections kept for a class are in non-increasing
\* score order.
C16_BestHasMaxScore ==
    /\ (pc = "while" /\ detect # << >>) =>
          \A i \in 1 .. Len(detect) : DetScore(Head(detect)) >= DetScore(detect[i])
    /\ pc \in {"label", "while"} =>
          \A i, j \in 1 .. Len(keep_boxes) :
              (i < j /\ keep_boxes[i].cls = keep_boxes[j].cls) =>
                  DetScore(keep_boxes[i]) >= DetScore(keep_boxes[j])

\* C16 witness: two detections of one class kept, the later of lower score,
\* and a candidate of still lower score left in the class
C16_Witness ==
    /\ pc = "while"
    /\ Len(keep_boxes) >= 2
    /\ detect # << >>
    /\ keep_boxes[Len(keep_boxes) - 1].cls = Last(keep_boxes).cls
    /\ DetScore(keep_boxes[Len(keep_boxes) - 1]) > DetScore(Last(keep_boxes))
    /\ Head(detect).cls = Last(keep_boxes).cls
    /\ DetScore(Last(keep_boxes)) > DetScore(Head(detect))

\* the rows of all groups of merged, one after the other
RECURSIVE Flatten(_)
Flatten(groups) ==
    IF groups = << >> THEN << >> ELSE Head(groups) \o Flatten(Tail(groups))

\* how often row r occurs in the sequence t
CountIn(t, r) == Cardinality({ i \in DOMAIN t : t[i] = r })

\* C17: when the per-class loops of an image are over, every candidate that
\* entered NMS is the best of exactly one kept detection or was merged into
\* exactly one, of its own class: none lost, none counted twice.
C17_HandledOnce ==
    PreStore =>
        /\ Len(merged) = Len(keep_boxes)
        /\ \A r \in Range(detections) \cup Range(Flatten(merged)) :
              CountIn(Flatten(merged), r) = CountIn(detections, r)
        /\ \A i \in 1 .. Len(merged) :
              /\ merged[i] # << >>
              /\ \A r \in Range(merged[i]) : r.cls = keep_boxes[i].cls
              /\ merged[i][1].conf = keep_boxes[i].conf
              /\ merged[i][1].a = keep_boxes[i].a

\* C17 witness: the loops of an image are over with detections of two
\* classes, a candidate merged into another, and two equal candidates
C17_Witness ==
    /\ PreStore
    /\ \E i, j \in 1 .. Len(keep_boxes) : keep_boxes[i].cls # keep_boxes[j].cls
    /\ \E i \in 1 .. Len(merged) : Len(merged[i]) >= 2
    /\ \E i, j \in 1 .. Len(detections) : i # j /\ detections[i] = detections[j]

(***************************************************************************)
(* Properties of bbox_xywha_ciou.                                          *)
(***************************************************************************)
\* C12: called with box batches of different sizes, bbox_xywha_ciou raises
\* at its first statement: nothing is computed, and no result, broadcast or
\* other, is returned.
C12_MismatchFailsFast ==
    (cpc # "idle" /\ pred_size # target_size) =>
        /\ cpc \in {"assert", "raised"}
        /\ cpc = "assert" => ciou_out = NoOutput
        /\ cpc = "raised" => ciou_out = Raised("AssertionError")

\* C12 witness: the call was refused for a batch of one box against a batch
\* of several, which the elementwise operations would broadcast
C12_Witness ==
    /\ cpc = "raised"
    /\ pred_size[1] = 1
    /\ target_size[1] > 1
    /\ pred_size[2] = 5
    /\ target_size[2] = 5

(***************************************************************************)
(* Further properties of target assignment.                                *)
(***************************************************************************)
\* the ground truths of the batch whose best cell at scale s is c
ClaimantsOf(c, s) == { k \in 1 .. Len(target) : BestCell(target[k], s) = c }

\* the latest of them
LastClaimant(c, s) ==
    CHOOSE k \in ClaimantsOf(c, s) : \A j \in ClaimantsOf(c, s) : j <= k

\* C13: at a cell that two or more ground truths map to, the class target is
\* one-hot with the class of the latest of them alone, and the angle target,
\* ciou_loss, skew_iou, iou_scores and class_mask are those of the latest.
C13_LastWriterWins ==
    lpc = "loss" =>
        \A c \in DOMAIN ta :
            Cardinality(ClaimantsOf(c, scale)) >= 2 =>
                LET g == target[LastClaimant(c, scale)]
                IN  /\ { e[2] : e \in { t \in tcls : t[1] = c } } = { g.label }
                    /\ ta[c] = AngleTarget(g, scale)
                    /\ \A f \in DOMAIN cellval : target[cellval[f][c]] = g

\* anchor a is in the ignore band of ground truth g at scale s
InBand(a, g, s) ==
    LET r == ariou(masked_anchors(s)[a], g, s)
    IN  \/ r[1] > ignore_thresh * r[2]
        \/ (r[1] > 400 * r[2] /\ offset(masked_anchors(s)[a], g) < 2)

\* C14: after build_targets, for the scale it ran for, noobj_mask is false
\* at (b, a, gy, gx) exactly
\* when a ground truth g of image b has the clamped cell (gy, gx) and a is
\* its best anchor, or anchor_iou(a, g) > ignore_thresh, or anchor_iou(a, g)
\* > 0.4 with angle_offset(a, g) < pi/12; it is true at every other cell.
C14_NoobjExact ==
    lpc = "loss" =>
        \A c \in Cells(scale) :
            (c \notin noobj_mask[scale]) <=>
                \E k \in 1 .. Len(target) :
                    /\ c[1] = target[k].b
                    /\ c[3] = gj(target[k], scale)
                    /\ c[4] = gi(target[k], scale)
                    /\ (c[2] = best_n(target[k], scale)
                        \/ InBand(c[2], target[k], scale))

\* C14 witness: build_targets has cleared an anchor that is not the best
\* one and is above 0.4 within pi/12 but not above ignore_thresh, and has
\* left another anchor of the same cell true
C14_Witness ==
    /\ lpc = "loss"
    /\ \E k \in 1 .. Len(target), a, o \in 1 .. nA(scale) :
          LET g == target[k]
              r == ariou(masked_anchors(scale)[a], g, scale)
          IN  /\ a # best_n(g, scale)
              /\ ~(r[1] > ignore_thresh * r[2])
              /\ << g.b, a, gj(g, scale), gi(g, scale) >> \notin noobj_mask[scale]
              /\ << g.b, o, gj(g, scale), gi(g, scale) >> \in noobj_mask[scale]

====
